---- MODULE Spec2Model ----
(***************************************************************************)
(* The monthly attendance reconciliation run of                            *)
(* student_attendance_monthly.py (the same pipeline as api.py with         *)
(* utils.py and database.py, plus the statistics): fetch, normalize, key,  *)
(* read the key snapshot, filter, resolve duplicates, insert row by row.   *)
(* Strings are sequences of one-character strings so that the field        *)
(* normalizers and the key concatenation are computed as the code does.    *)
(* Spec runs the pipeline twice, one run after the other; SpecOverlap      *)
(* interleaves two runs; SpecKey derives the identity keys of two records  *)
(* of one batch; SpecNormalize calls one field normalizer of utils.py on   *)
(* one raw value; SpecYearly runs fetch_data of the yearly backfill on one *)
(* batch; SpecAcademicYear derives the academic year of one date at each   *)
(* entry point; SpecMain is one daily run of main.py, the ingestion and    *)
(* then the reminders.                                                     *)
(***************************************************************************)
EXTENDS Integers, Sequences, FiniteSets, TLC

\* ------------------------------------------------------------------------
\* Characters and Python string primitives
\* ------------------------------------------------------------------------

\* The printable ASCII characters in code-point order, starting at 32
\* (code 96, the grave accent, is held by a placeholder no input uses).
AsciiChars ==
    <<" ", "!", "\"", "#", "$", "%", "&", "'", "(", ")", "*", "+", ",", "-", ".", "/", "0", "1", "2", "3", "4", "5", "6", "7">> \o
    <<"8", "9", ":", ";", "<", "=", ">", "?", "@", "A", "B", "C", "D", "E", "F", "G", "H", "I", "J", "K", "L", "M", "N", "O">> \o
    <<"P", "Q", "R", "S", "T", "U", "V", "W", "X", "Y", "Z", "[", "\\", "]", "^", "_", "GRAVE", "a", "b", "c", "d", "e", "f", "g">> \o
    <<"h", "i", "j", "k", "l", "m", "n", "o", "p", "q", "r", "s", "t", "u", "v", "w", "x", "y", "z", "{", "|", "}", "~">>

\* The code point of every character
OrdTable ==
    [c \in {AsciiChars[i] : i \in 1..Len(AsciiChars)} |->
        31 + (CHOOSE i \in 1..Len(AsciiChars) : AsciiChars[i] = c)]

\* ord(c)
Ord(c) == OrdTable[c]

\* chr(n)
Chr(n) == AsciiChars[n - 31]

IsUpperChar(c) == Ord(c) >= 65 /\ Ord(c) <= 90
IsLowerChar(c) == Ord(c) >= 97 /\ Ord(c) <= 122
IsAlphaChar(c) == IsUpperChar(c) \/ IsLowerChar(c)
IsDigitChar(c) == Ord(c) >= 48 /\ Ord(c) <= 57
\* \w of the re module
IsWordChar(c) == IsAlphaChar(c) \/ IsDigitChar(c) \/ c = "_"
\* \s of the re module and the characters str.strip() removes
IsSpaceChar(c) == c = " "

UpperChar(c) == IF IsLowerChar(c) THEN Chr(Ord(c) - 32) ELSE c
LowerChar(c) == IF IsUpperChar(c) THEN Chr(Ord(c) + 32) ELSE c

\* str.upper() / str.lower()
StrUpper(s) == [i \in 1..Len(s) |-> UpperChar(s[i])]
StrLower(s) == [i \in 1..Len(s) |-> LowerChar(s[i])]

SetMin(S) == CHOOSE x \in S : \A y \in S : x <= y
SetMax(S) == CHOOSE x \in S : \A y \in S : x >= y

\* str.strip()
StrStrip(s) ==
    LET keep == {i \in 1..Len(s) : ~IsSpaceChar(s[i])}
    IN IF keep = {} THEN <<>> ELSE SubSeq(s, SetMin(keep), SetMax(keep))

\* str.title(): a cased character is upper-cased when the character before
\* it is not cased and lower-cased otherwise.
StrTitle(s) ==
    [i \in 1..Len(s) |->
        IF ~IsAlphaChar(s[i]) THEN s[i]
        ELSE IF i > 1 /\ IsAlphaChar(s[i-1]) THEN LowerChar(s[i])
        ELSE UpperChar(s[i])]

\* re.sub(r'\s+', " ", s): every maximal run of whitespace becomes one space.
RECURSIVE CollapseSpaces(_)
CollapseSpaces(s) ==
    IF s = <<>> THEN <<>>
    ELSE IF IsSpaceChar(Head(s))
         THEN IF Len(s) > 1 /\ IsSpaceChar(s[2])
              THEN CollapseSpaces(Tail(s))
              ELSE <<" ">> \o CollapseSpaces(Tail(s))
         ELSE <<Head(s)>> \o CollapseSpaces(Tail(s))

\* Python's ordering of two strings (code-point lexicographic): a < b
RECURSIVE StrLess(_, _)
StrLess(a, b) ==
    IF b = <<>> THEN FALSE
    ELSE IF a = <<>> THEN TRUE
    ELSE IF Head(a) = Head(b) THEN StrLess(Tail(a), Tail(b))
    ELSE Ord(Head(a)) < Ord(Head(b))

\* str(n) for a natural number
RECURSIVE IntToStr(_)
IntToStr(n) ==
    IF n < 10 THEN <<Chr(48 + n)>>
    ELSE IntToStr(n \div 10) \o <<Chr(48 + (n % 10))>>

\* int(s) for a string of decimal digits
RECURSIVE StrToInt(_)
StrToInt(s) ==
    IF s = <<>> THEN 0
    ELSE 10 * StrToInt(SubSeq(s, 1, Len(s) - 1)) + (Ord(s[Len(s)]) - 48)

\* zero-padded decimal of width w (strftime %d, %m, %Y)
RECURSIVE ZeroPad(_, _)
ZeroPad(s, w) == IF Len(s) >= w THEN s ELSE ZeroPad(<<"0">> \o s, w)

\* ------------------------------------------------------------------------
\* Field normalizers of student_attendance_monthly.py
\* ------------------------------------------------------------------------

clean_student_name(value) == StrTitle(StrStrip(CollapseSpaces(value)))

\* roman_to_number, as a set of <<roman, number>> pairs
roman_to_number ==
    { << <<"I">>, <<"1">> >>, << <<"I","I">>, <<"2">> >>,
      << <<"I","I","I">>, <<"3">> >>, << <<"I","V">>, <<"4">> >>,
      << <<"V">>, <<"5">> >>, << <<"V","I">>, <<"6">> >>,
      << <<"V","I","I">>, <<"7">> >>, << <<"V","I","I","I">>, <<"8">> >>,
      << <<"I","X">>, <<"9">> >>, << <<"X">>, <<"1","0">> >>,
      << <<"X","I">>, <<"1","1">> >>, << <<"X","I","I">>, <<"1","2">> >> }

InRomanTable(tok) == \E p \in roman_to_number : p[1] = tok
RomanNumber(tok) == (CHOOSE p \in roman_to_number : p[1] = tok)[2]

GradePrefix == <<"G","R","A","D","E"," ">>

\* The maximal run of characters satisfying \w that starts at position i.
RECURSIVE WordRunFrom(_, _)
WordRunFrom(s, i) ==
    IF i > Len(s) \/ ~IsWordChar(s[i]) THEN <<>>
    ELSE <<s[i]>> \o WordRunFrom(s, i + 1)

\* Start positions at which the pattern GRADE (\w+) matches.
GradeMatchStarts(value) ==
    {i \in 1..Len(value) :
        /\ i + 6 <= Len(value)
        /\ SubSeq(value, i, i + 5) = GradePrefix
        /\ IsWordChar(value[i + 6])}

convert_grade_name(value) ==
    IF value = <<"J","r",".","K","G">> THEN <<"J","R",".","K","G">>
    ELSE IF value = <<"S","r",".","K","G">> THEN <<"S","R",".","K","G">>
    ELSE LET starts == GradeMatchStarts(value)
             roman == WordRunFrom(value, SetMin(starts) + 6)
         IN IF starts # {} /\ InRomanTable(roman)
            THEN GradePrefix \o RomanNumber(roman)
            ELSE value

\* Positions of the character c in s
Positions(s, c) == {i \in 1..Len(s) : s[i] = c}

AllDigits(s) == \A i \in 1..Len(s) : IsDigitChar(s[i])

\* %d of strptime: 3[0-1]|[1-2]\d|0[1-9]|[1-9]| [1-9]
IsDayField(s) ==
    \/ Len(s) = 2 /\ AllDigits(s) /\ StrToInt(s) >= 1 /\ StrToInt(s) <= 31
    \/ Len(s) = 1 /\ AllDigits(s) /\ StrToInt(s) >= 1
    \/ Len(s) = 2 /\ s[1] = " " /\ IsDigitChar(s[2]) /\ s[2] # "0"

\* %m of strptime: 1[0-2]|0[1-9]|[1-9]
IsMonthField(s) ==
    \/ Len(s) = 2 /\ AllDigits(s) /\ StrToInt(s) >= 1 /\ StrToInt(s) <= 12
    \/ Len(s) = 1 /\ AllDigits(s) /\ StrToInt(s) >= 1

\* %Y of strptime: \d\d\d\d
IsYearField(s) == Len(s) = 4 /\ AllDigits(s)

IsLeapYear(y) == (y % 4 = 0) /\ ((y % 100 # 0) \/ (y % 400 = 0))

DaysInMonth(y, m) ==
    IF m = 2 THEN (IF IsLeapYear(y) THEN 29 ELSE 28)
    ELSE IF m \in {4, 6, 9, 11} THEN 30 ELSE 31

\* The value of a %d field (a leading space stands for a leading zero)
DayValue(s) == IF s[1] = " " THEN StrToInt(<<s[2]>>) ELSE StrToInt(s)

\* datetime.strptime(s, '%d/%m/%Y') succeeds
StrptimeOk(s) ==
    LET sl == Positions(s, "/")
    IN /\ Cardinality(sl) = 2
       /\ LET p1 == SetMin(sl)
              p2 == SetMax(sl)
              d == SubSeq(s, 1, p1 - 1)
              m == SubSeq(s, p1 + 1, p2 - 1)
              y == SubSeq(s, p2 + 1, Len(s))
          IN /\ IsDayField(d)
             /\ IsMonthField(m)
             /\ IsYearField(y)
             /\ StrToInt(y) >= 1
             /\ DayValue(d) <= DaysInMonth(StrToInt(y), StrToInt(m))

\* format_date_column writing the date back as month/day/year
format_date_column_month_first(original_date) ==
    IF StrptimeOk(original_date)
    THEN LET sl == Positions(original_date, "/")
             p1 == SetMin(sl)
             p2 == SetMax(sl)
         IN SubSeq(original_date, p1 + 1, p2 - 1) \o <<"/">>
              \o SubSeq(original_date, 1, p1 - 1)
              \o SubSeq(original_date, p2, Len(original_date))
    ELSE original_date

\* strftime('%Y-%m-%d') as the C library of the build formats it: %m and %d
\* zero-padded to two digits, %Y without padding (year 999 gives 999)
format_date_column(original_date) ==
    IF StrptimeOk(original_date)
    THEN LET sl == Positions(original_date, "/")
             p1 == SetMin(sl)
             p2 == SetMax(sl)
             d == DayValue(SubSeq(original_date, 1, p1 - 1))
             m == StrToInt(SubSeq(original_date, p1 + 1, p2 - 1))
             y == StrToInt(SubSeq(original_date, p2 + 1, Len(original_date)))
         IN IntToStr(y) \o <<"-">> \o ZeroPad(IntToStr(m), 2)
              \o <<"-">> \o ZeroPad(IntToStr(d), 2)
    ELSE original_date

male_values ==
    { <<"m","a","l","e">>, <<"m">>, <<"m","a","n">>, <<"b","o","y">>,
      <<"m","a","s","c","u","l","i","n","e">> }

female_values ==
    { <<"f","e","m","a","l","e">>, <<"f">>, <<"w","o","m","a","n">>,
      <<"g","i","r","l">>, <<"f","e","m","i","n","i","n","e">> }

\* clean_gender looking the value up without strip()
clean_gender_no_strip(value) ==
    IF value = <<>> THEN value
    ELSE IF StrLower(value) \in male_values THEN <<"M">>
    ELSE IF StrLower(value) \in female_values THEN <<"F">>
    ELSE value

clean_gender(value) ==
    IF value = <<>> THEN value
    ELSE IF StrLower(StrStrip(value)) \in male_values THEN <<"M">>
    ELSE IF StrLower(StrStrip(value)) \in female_values THEN <<"F">>
    ELSE value

\* The maximal run of ASCII letters that starts at position i.
RECURSIVE AlphaRunFrom(_, _)
AlphaRunFrom(s, i) ==
    IF i > Len(s) \/ ~IsAlphaChar(s[i]) THEN <<>>
    ELSE <<s[i]>> \o AlphaRunFrom(s, i + 1)

extract_division(value) ==
    LET letters == {i \in 1..Len(value) : IsAlphaChar(value[i])}
    IN IF letters = {} THEN value ELSE AlphaRunFrom(value, SetMin(letters))

\* ------------------------------------------------------------------------
\* The reporting period of a run
\* ------------------------------------------------------------------------

\* datetime.now() of the run
Today == [year |-> 2024, month |-> 7]

\* today - relativedelta(months=1)
previous_month_date(today) ==
    IF today.month = 1 THEN [year |-> today.year - 1, month |-> 12]
    ELSE [year |-> today.year, month |-> today.month - 1]

\* strftime("%B")
MonthNames ==
    << <<"J","a","n","u","a","r","y">>,
       <<"F","e","b","r","u","a","r","y">>,
       <<"M","a","r","c","h">>,
       <<"A","p","r","i","l">>,
       <<"M","a","y">>,
       <<"J","u","n","e">>,
       <<"J","u","l","y">>,
       <<"A","u","g","u","s","t">>,
       <<"S","e","p","t","e","m","b","e","r">>,
       <<"O","c","t","o","b","e","r">>,
       <<"N","o","v","e","m","b","e","r">>,
       <<"D","e","c","e","m","b","e","r">> >>

month_name_of(d) == MonthNames[d.month]

academic_year_of(d) ==
    IF d.month < 5
    THEN IntToStr(d.year - 1) \o <<"-">> \o IntToStr(d.year)
    ELSE IntToStr(d.year) \o <<"-">> \o IntToStr(d.year + 1)

academic_year == academic_year_of(previous_month_date(Today))
month_name == month_name_of(previous_month_date(Today))

\* ------------------------------------------------------------------------
\* Batch operations (data frames are sequences of rows)
\* ------------------------------------------------------------------------

\* The columns of a row that hold strings
StringColumns ==
    {"school_name", "grade_name", "division_name", "course_name", "student_id",
     "student_name", "gender", "date", "academic_year", "month"}

\* trim_dataframe on one row
trim_row(row) ==
    [c \in DOMAIN row |-> IF c \in StringColumns THEN StrStrip(row[c]) ELSE row[c]]

\* The cleaning of one API record: the column-wise apply() calls, the two
\* period columns, fill_na (the records drawn here have no null field) and
\* trim_dataframe.
clean_row(raw) ==
    trim_row(
        [raw EXCEPT !.student_name = clean_student_name(@),
                    !.grade_name = convert_grade_name(@),
                    !.date = format_date_column(@),
                    !.gender = clean_gender(@),
                    !.division_name = extract_division(@)]
        @@ [academic_year |-> academic_year, month |-> month_name])

clean_batch(data) == [i \in 1..Len(data) |-> clean_row(data[i])]

Sep == <<"|">>

\* unique_key with student_name in the place of student_id
unique_key_by_name(row) ==
    row.academic_year \o Sep \o row.month \o Sep \o row.school_name
        \o Sep \o row.grade_name \o Sep \o row.student_name

\* f"{academic_year}|{month}|{school_name}|{grade_name}|{student_id}"
unique_key(row) ==
    row.academic_year \o Sep \o row.month \o Sep \o row.school_name \o Sep
      \o row.grade_name \o Sep \o row.student_id

key_row(row) == row @@ [student_attendance_data_unique_key |-> unique_key(row)]

key_batch(df) == [i \in 1..Len(df) |-> key_row(df[i])]

\* df[mask]: the rows whose index is in keep, in their order
RECURSIVE TakeRows(_, _, _)
TakeRows(df, keep, i) ==
    IF i > Len(df) THEN <<>>
    ELSE (IF i \in keep THEN <<df[i]>> ELSE <<>>) \o TakeRows(df, keep, i + 1)

\* filter_new without the negation of the mask
filter_new_not_negated(df, keys) ==
    TakeRows(df,
             {i \in 1..Len(df) : df[i].student_attendance_data_unique_key \in keys},
             1)

\* df[~df['student_attendance_data_unique_key'].isin(keys)]
filter_new(df, keys) ==
    TakeRows(df,
             {i \in 1..Len(df) : df[i].student_attendance_data_unique_key \notin keys},
             1)

\* subset_cols of deduplicate_by_studentid
natural_id(row) == <<row.student_id, row.student_name, row.gender, row.school_name>>

RECURSIVE TupleLess(_, _)
TupleLess(a, b) ==
    IF a = <<>> THEN FALSE
    ELSE IF Head(a) = Head(b) THEN TupleLess(Tail(a), Tail(b))
    ELSE StrLess(Head(a), Head(b))

\* sorts_before with attendance_percentage ascending as well
sorts_before_all_ascending(a, b) ==
    \/ TupleLess(natural_id(a), natural_id(b))
    \/ /\ natural_id(a) = natural_id(b)
       /\ a.attendance_percentage < b.attendance_percentage

\* sort_values(by=subset_cols + ['attendance_percentage'],
\*             ascending=[True, True, True, True, False]): a sorts before b
sorts_before(a, b) ==
    \/ TupleLess(natural_id(a), natural_id(b))
    \/ /\ natural_id(a) = natural_id(b)
       /\ a.attendance_percentage > b.attendance_percentage

\* InsertSorted putting x in front of the rows it ties with (a sort that
\* reverses the batch order of tied rows)
RECURSIVE InsertSorted_before_ties(_, _)
InsertSorted_before_ties(s, x) ==
    IF s = <<>> THEN <<x>>
    ELSE IF ~sorts_before(Head(s), x) THEN <<x>> \o s
    ELSE <<Head(s)>> \o InsertSorted_before_ties(Tail(s), x)

\* Insert row x into the sorted sequence s behind every row that does not
\* sort after it (the multi-column sort of pandas is stable).
RECURSIVE InsertSorted(_, _)
InsertSorted(s, x) ==
    IF s = <<>> THEN <<x>>
    ELSE IF sorts_before(x, Head(s)) THEN <<x>> \o s
    ELSE <<Head(s)>> \o InsertSorted(Tail(s), x)

RECURSIVE SortRows(_)
SortRows(s) ==
    IF s = <<>> THEN <<>>
    ELSE InsertSorted(SortRows(SubSeq(s, 1, Len(s) - 1)), s[Len(s)])

\* drop_duplicates(subset=subset_cols, keep='first')
drop_duplicates_first(s) ==
    TakeRows(s,
             {i \in 1..Len(s) :
                 \A j \in 1..(i - 1) : natural_id(s[j]) # natural_id(s[i])},
             1)

deduplicate_by_studentid(df) ==
    LET duplicated_mask ==
            {i \in 1..Len(df) :
                \E j \in 1..Len(df) : j # i /\ natural_id(df[j]) = natural_id(df[i])}
        df_duplicates == SortRows(TakeRows(df, duplicated_mask, 1))
        df_deduped == drop_duplicates_first(df_duplicates)
        df_non_duplicates == TakeRows(df, (1..Len(df)) \ duplicated_mask, 1)
    IN df_non_duplicates \o df_deduped

\* ------------------------------------------------------------------------
\* Inputs: the records the API can return
\* ------------------------------------------------------------------------

\* Longest batch the API returns
MaxBatch == 3

RawBase ==
    [school_name |-> <<"X">>,
     grade_name |-> <<"G","R","A","D","E"," ","I","V">>,
     division_name |-> <<"A","-","1">>,
     course_name |-> <<"C">>,
     student_id |-> <<"S","1">>,
     student_name |-> <<"a","n","n"," "," ","l","e","e">>,
     gender |-> <<" ","G","i","r","l"," ">>,
     date |-> <<"0","5","/","0","6","/","2","0","2","4">>,
     no_of_working_days |-> 20,
     no_of_present_days |-> 16,
     attendance_percentage |-> 80]

\* the same student, school and grade resubmitted with a higher attendance
RawResubmitted ==
    [RawBase EXCEPT !.student_name = <<"A","n","n"," ","L","e","e">>,
                    !.no_of_present_days = 19, !.attendance_percentage = 95]

\* the same student submitted under another grade label, attendance tied
RawOtherGrade ==
    [RawBase EXCEPT !.grade_name = <<"G","R","A","D","E"," ","V">>,
                    !.no_of_present_days = 19, !.attendance_percentage = 95]

\* the same school, grade and student id with a differently spelled name
RawOtherName ==
    [RawBase EXCEPT !.student_name = <<"A","n","n"," ","L","e","i","g","h">>,
                    !.no_of_present_days = 18, !.attendance_percentage = 90]

\* an unrelated student of another school
RawOtherSchool ==
    [school_name |-> <<"Y"," ">>,
     grade_name |-> <<"J","r",".","K","G">>,
     division_name |-> <<"2">>,
     course_name |-> <<"C">>,
     student_id |-> <<"S","2">>,
     student_name |-> <<"B","O">>,
     gender |-> <<"m">>,
     date |-> <<"0","5","/","1","3","/","2","0","2","4">>,
     no_of_working_days |-> 20,
     no_of_present_days |-> 14,
     attendance_percentage |-> 70]

RawPool == {RawBase, RawResubmitted, RawOtherGrade, RawOtherName, RawOtherSchool}

\* All sequences over S of length at most n
RECURSIVE SeqsUpTo(_, _)
SeqsUpTo(S, n) ==
    IF n = 0 THEN {<<>>}
    ELSE LET shorter == SeqsUpTo(S, n - 1)
         IN shorter \cup {Append(q, x) : q \in {p \in shorter : Len(p) = n - 1}, x \in S}

Batches == SeqsUpTo(RawPool, MaxBatch)

\* The contents the table can have when overlapping runs start: empty, or
\* one row that an earlier run stored.
InitialStores == {<<>>, <<key_row(clean_row(RawBase))>>}

\* ------------------------------------------------------------------------
\* State
\* ------------------------------------------------------------------------

Runs == {"r1", "r2"}

VARIABLES
    apiData,    \* the 'data' list the API returns for the period
    store,      \* the rows of table student_attendance_data, in insert order
    run,        \* per run: the locals of fetch_data_from_api_and_process
    fn_input,   \* the raw value, or raw records, handed to one function
    fn_output   \* the function called (fn) and what its calls gave (out)

vars == <<apiData, store, run, fn_input, fn_output>>

\* fn_output before any function has been called
NoOutput == [fn |-> "none", out |-> <<>>]

InitStats ==
    [api_records_fetched |-> 0,
     records_after_cleaning |-> 0,
     existing_records_in_db |-> 0,
     new_records_to_process |-> 0,
     duplicates_removed |-> 0,
     new_records_inserted |-> 0,
     duplicate_records_skipped |-> 0,
     error_records |-> 0]

\* Fields h_* record what the run did; the code does not read them.
InitRun ==
    [pc |-> "fetch",
     stats |-> InitStats,
     data |-> <<>>,
     df |-> <<>>,
     unique_keys_from_mysql |-> {},
     new_data_df |-> <<>>,
     row_index |-> 0,
     inserted_count |-> 0,
     duplicate_count |-> 0,
     error_count |-> 0,
     h_steps |-> <<>>,
     h_fetch |-> "none",
     h_snapshot |-> "none",
     h_snapshot_reads |-> 0,
     h_filtered |-> <<>>,
     h_offered |-> <<>>,
     h_outcomes |-> <<>>]

\* The table as setup_database creates it, before the first run
Init ==
    /\ apiData \in Batches
    /\ store = <<>>
    /\ run = [r \in Runs |-> InitRun]
    /\ fn_input = <<>>
    /\ fn_output = NoOutput

\* ------------------------------------------------------------------------
\* The table: a plain INSERT against the UNIQUE key column
\* ------------------------------------------------------------------------

stored_keys(st) == {st[i].student_attendance_data_unique_key : i \in 1..Len(st)}

\* errno of mysql.connector.Error for a duplicate entry
ER_DUP_ENTRY == 1062

\* insert_errno for a key column created without UNIQUE
insert_errno_no_unique_index(st, row) == 0

\* errno of cursor.execute(insert_query, row) against table st, 0 for success,
\* when nothing but the UNIQUE constraint can reject the row
insert_errno(st, row) ==
    IF row.student_attendance_data_unique_key \in stored_keys(st)
    THEN ER_DUP_ENTRY ELSE 0

\* table_after_insert for INSERT ... ON DUPLICATE KEY UPDATE: the stored
\* row with the key of row is overwritten
table_after_upsert(st, row) ==
    IF insert_errno(st, row) = 0 THEN Append(st, row)
    ELSE [i \in 1..Len(st) |->
            IF st[i].student_attendance_data_unique_key
                 = row.student_attendance_data_unique_key
            THEN row ELSE st[i]]

\* the table after cursor.execute(insert_query, row) and conn.commit()
table_after_insert(st, row) ==
    IF insert_errno(st, row) = 0 THEN Append(st, row) ELSE st

\* ------------------------------------------------------------------------
\* The steps of fetch_data_from_api_and_process on the locals of one run
\* ------------------------------------------------------------------------

\* requests.get and the two tests on the response
\* StepFetch with line 321 reading "if data:": a 'data' value that is not
\* a list but is truthy goes on to the cleaning stage
StepFetch_no_list_test(loc, status_ok, is_list, data) ==
    IF ~status_ok
    THEN [loc EXCEPT !.h_steps = Append(@, "fetch"),
                     !.h_fetch = "http_error", !.pc = "summary"]
    ELSE IF ~is_list
    THEN [loc EXCEPT !.stats.api_records_fetched = 0,
                     !.h_steps = Append(@, "fetch"),
                     !.h_fetch = "not_a_list", !.pc = "clean"]
    ELSE [loc EXCEPT !.stats.api_records_fetched = Len(data),
                     !.data = data,
                     !.h_steps = Append(@, "fetch"),
                     !.h_fetch = IF data # <<>> THEN "rows" ELSE "empty_list",
                     !.pc = IF data # <<>> THEN "clean" ELSE "summary"]

\* Lines 313-321 and 364-367. is_list tells whether the 'data' field of the
\* response is a list (then data holds it); a 'data' field of another type
\* (null, an object, a string) counts as zero fetched records and takes the
\* else branch of line 321, as the empty list does.
StepFetch(loc, status_ok, is_list, data) ==
    IF ~status_ok
    THEN [loc EXCEPT !.h_steps = Append(@, "fetch"),
                     !.h_fetch = "http_error", !.pc = "summary"]
    ELSE IF ~is_list
    THEN [loc EXCEPT !.stats.api_records_fetched = 0,
                     !.h_steps = Append(@, "fetch"),
                     !.h_fetch = "not_a_list", !.pc = "summary"]
    ELSE [loc EXCEPT !.stats.api_records_fetched = Len(data),
                     !.data = data,
                     !.h_steps = Append(@, "fetch"),
                     !.h_fetch = IF data # <<>> THEN "rows" ELSE "empty_list",
                     !.pc = IF data # <<>> THEN "clean" ELSE "summary"]

StepClean(loc) ==
    LET df == clean_batch(loc.data)
    IN [loc EXCEPT !.df = df,
                   !.stats.records_after_cleaning = Len(df),
                   !.h_steps = Append(@, "clean"),
                   !.pc = "key"]

StepKey(loc) ==
    [loc EXCEPT !.df = key_batch(loc.df),
                !.h_steps = Append(@, "key"),
                !.pc = "snapshot"]

\* fetch_unique_keys_from_mysql(): the set of stored keys, or the empty set
\* when the query fails on an open connection
fetch_unique_keys_from_mysql(st, outcome) ==
    IF outcome = "ok" THEN stored_keys(st) ELSE {}

\* The call of fetch_unique_keys_from_mysql. When connect() itself fails the
\* except clause returns, but the finally clause then reads the unbound
\* local conn and the UnboundLocalError leaves the function and its caller.
StepSnapshot(loc, st, outcome) ==
    IF outcome = "connect_error" THEN [loc EXCEPT !.pc = "raised"]
    ELSE LET unique_keys == fetch_unique_keys_from_mysql(st, outcome)
         IN [loc EXCEPT
            !.unique_keys_from_mysql = unique_keys,
            !.stats.existing_records_in_db = Cardinality(unique_keys),
            !.h_snapshot = outcome,
            !.h_snapshot_reads = @ + 1,
            !.h_steps = Append(@, "snapshot"),
            !.pc = "filter"]

StepFilter(loc) ==
    LET new_data_df == filter_new(loc.df, loc.unique_keys_from_mysql)
    IN [loc EXCEPT
          !.new_data_df = new_data_df,
          !.stats.new_records_to_process = Len(new_data_df),
          !.h_filtered = new_data_df,
          !.h_steps = Append(@, "filter"),
          !.pc = "dedup"]

\* StepDedup with the resolver applied to df, the whole keyed batch
StepDedup_whole_batch(loc) ==
    LET deduped == IF loc.new_data_df # <<>>
                   THEN deduplicate_by_studentid(loc.df)
                   ELSE loc.new_data_df
    IN [loc EXCEPT
          !.new_data_df = deduped,
          !.stats.duplicates_removed =
              IF loc.new_data_df # <<>>
              THEN Len(loc.new_data_df) - Len(deduped) ELSE @,
          !.h_steps = Append(@, "dedup"),
          !.pc = IF deduped # <<>> THEN "connect" ELSE "summary"]

\* The two "if not new_data_df.empty" blocks
StepDedup(loc) ==
    LET deduped == IF loc.new_data_df # <<>>
                   THEN deduplicate_by_studentid(loc.new_data_df)
                   ELSE loc.new_data_df
    IN [loc EXCEPT
          !.new_data_df = deduped,
          !.stats.duplicates_removed =
              IF loc.new_data_df # <<>>
              THEN Len(loc.new_data_df) - Len(deduped) ELSE @,
          !.h_steps = Append(@, "dedup"),
          !.pc = IF deduped # <<>> THEN "connect" ELSE "summary"]

\* insert_data_to_mysql up to the loop. When connect() fails the except
\* clause counts every row as errored, and the finally clause then reads
\* the unbound local conn: the UnboundLocalError leaves the function.
StepConnect(loc, connected) ==
    IF connected
    THEN [loc EXCEPT !.row_index = 1, !.inserted_count = 0,
                     !.duplicate_count = 0, !.error_count = 0,
                     !.h_steps = Append(@, "connect"),
                     !.pc = "insert"]
    ELSE [loc EXCEPT !.stats.error_records = Len(loc.new_data_df),
                     !.pc = "raised"]

\* CurrentRow when the loop variable never advances
CurrentRow_always_first(loc) == loc.new_data_df[1]

CurrentRow(loc) == loc.new_data_df[loc.row_index]

\* StepRowInserted that also adds the inserted key to the snapshot
StepRowInserted_updates_snapshot(loc) ==
    [loc EXCEPT !.inserted_count = @ + 1,
                !.row_index = @ + 1,
                !.unique_keys_from_mysql =
                    @ \cup {loc.new_data_df[loc.row_index].student_attendance_data_unique_key},
                !.h_offered = Append(@, loc.new_data_df[loc.row_index]),
                !.h_outcomes = Append(@, "inserted")]

\* execute and commit succeeded
StepRowInserted(loc) ==
    [loc EXCEPT !.inserted_count = @ + 1,
                !.row_index = @ + 1,
                !.h_offered = Append(@, CurrentRow(loc)),
                !.h_outcomes = Append(@, "inserted")]

\* StepRowDuplicate that re-raises errno 1062 like any other error
StepRowDuplicate_escalates(loc) ==
    [loc EXCEPT !.error_count = @ + 1,
                !.stats.error_records = Len(loc.new_data_df),
                !.h_offered = Append(@, loc.new_data_df[loc.row_index]),
                !.h_outcomes = Append(@, "duplicate"),
                !.pc = "summary"]

\* execute raised errno 1062
StepRowDuplicate(loc) ==
    [loc EXCEPT !.duplicate_count = @ + 1,
                !.row_index = @ + 1,
                !.h_offered = Append(@, CurrentRow(loc)),
                !.h_outcomes = Append(@, "duplicate")]

\* StepRowFailed whose outer handler reports error_count, the failing row
StepRowFailed_reports_error_count(loc) ==
    [loc EXCEPT !.error_count = @ + 1,
                !.stats.error_records = loc.error_count + 1,
                !.h_offered = Append(@, loc.new_data_df[loc.row_index]),
                !.h_outcomes = Append(@, "error"),
                !.pc = "summary"]

\* execute raised another errno: the inner handler counts and re-raises,
\* the outer handler sets error_records and the function returns
StepRowFailed(loc) ==
    [loc EXCEPT !.error_count = @ + 1,
                !.stats.error_records = Len(loc.new_data_df),
                !.h_offered = Append(@, CurrentRow(loc)),
                !.h_outcomes = Append(@, "error"),
                !.pc = "summary"]

\* the statements after the loop
StepInsertDone(loc) ==
    [loc EXCEPT !.stats.new_records_inserted = loc.inserted_count,
                !.h_steps = Append(@, "inserted_all"),
                !.stats.duplicate_records_skipped = loc.duplicate_count,
                !.stats.error_records = loc.error_count,
                !.pc = "summary"]

\* print_statistics(stats, ...) and return stats
StepSummary(loc) ==
    [loc EXCEPT !.h_steps = Append(@, "summary"), !.pc = "done"]

\* ------------------------------------------------------------------------
\* Actions
\* ------------------------------------------------------------------------

Fetch(r) ==
    /\ run[r].pc = "fetch"
    /\ \E status_ok \in BOOLEAN, is_list \in BOOLEAN :
          run' = [run EXCEPT ![r] = StepFetch(run[r], status_ok, is_list, apiData)]
    /\ UNCHANGED <<apiData, store, fn_input, fn_output>>

Clean(r) ==
    /\ run[r].pc = "clean"
    /\ run' = [run EXCEPT ![r] = StepClean(run[r])]
    /\ UNCHANGED <<apiData, store, fn_input, fn_output>>

DeriveKey(r) ==
    /\ run[r].pc = "key"
    /\ run' = [run EXCEPT ![r] = StepKey(run[r])]
    /\ UNCHANGED <<apiData, store, fn_input, fn_output>>

ReadSnapshot(r) ==
    /\ run[r].pc = "snapshot"
    /\ \E outcome \in {"ok", "query_error", "connect_error"} :
          run' = [run EXCEPT ![r] = StepSnapshot(run[r], store, outcome)]
    /\ UNCHANGED <<apiData, store, fn_input, fn_output>>

Filter(r) ==
    /\ run[r].pc = "filter"
    /\ run' = [run EXCEPT ![r] = StepFilter(run[r])]
    /\ UNCHANGED <<apiData, store, fn_input, fn_output>>

Deduplicate(r) ==
    /\ run[r].pc = "dedup"
    /\ run' = [run EXCEPT ![r] = StepDedup(run[r])]
    /\ UNCHANGED <<apiData, store, fn_input, fn_output>>

Connect(r) ==
    /\ run[r].pc = "connect"
    /\ \E connected \in BOOLEAN :
          run' = [run EXCEPT ![r] = StepConnect(run[r], connected)]
    /\ UNCHANGED <<apiData, store, fn_input, fn_output>>

InsertRowOk(r) ==
    /\ run[r].pc = "insert"
    /\ run[r].row_index <= Len(run[r].new_data_df)
    /\ insert_errno(store, CurrentRow(run[r])) = 0
    /\ store' = table_after_insert(store, CurrentRow(run[r]))
    /\ run' = [run EXCEPT ![r] = StepRowInserted(run[r])]
    /\ UNCHANGED <<apiData, fn_input, fn_output>>

InsertRowDuplicate(r) ==
    /\ run[r].pc = "insert"
    /\ run[r].row_index <= Len(run[r].new_data_df)
    /\ insert_errno(store, CurrentRow(run[r])) = ER_DUP_ENTRY
    /\ store' = table_after_insert(store, CurrentRow(run[r]))
    /\ run' = [run EXCEPT ![r] = StepRowDuplicate(run[r])]
    /\ UNCHANGED <<apiData, fn_input, fn_output>>

\* InsertRowError in a batch transaction: the failure rolls back the rows
\* this run has inserted
InsertRowError_rolls_back(r) ==
    /\ run[r].pc = "insert"
    /\ run[r].row_index <= Len(run[r].new_data_df)
    /\ run' = [run EXCEPT ![r] = StepRowFailed(run[r])]
    /\ store' = SubSeq(store, 1, Len(store) - run[r].inserted_count)
    /\ UNCHANGED <<apiData, fn_input, fn_output>>

\* any other database error (lost connection, rejected value, ...)
InsertRowError(r) ==
    /\ run[r].pc = "insert"
    /\ run[r].row_index <= Len(run[r].new_data_df)
    /\ run' = [run EXCEPT ![r] = StepRowFailed(run[r])]
    /\ UNCHANGED <<apiData, store, fn_input, fn_output>>

InsertDone(r) ==
    /\ run[r].pc = "insert"
    /\ run[r].row_index > Len(run[r].new_data_df)
    /\ run' = [run EXCEPT ![r] = StepInsertDone(run[r])]
    /\ UNCHANGED <<apiData, store, fn_input, fn_output>>

Summary(r) ==
    /\ run[r].pc = "summary"
    /\ run' = [run EXCEPT ![r] = StepSummary(run[r])]
    /\ UNCHANGED <<apiData, store, fn_input, fn_output>>

\* The scheduler starts one run per day: in the serialized system a run
\* starts only when the run before it has ended.
RunBefore(r) == IF r = "r2" THEN {"r1"} ELSE {}

Ended(r) == run[r].pc \in {"done", "raised"}

SerialFetch(r) ==
    /\ \A q \in RunBefore(r) : Ended(q)
    /\ Fetch(r)

RunStep(r) ==
    \/ Clean(r)
    \/ DeriveKey(r)
    \/ ReadSnapshot(r)
    \/ Filter(r)
    \/ Deduplicate(r)
    \/ Connect(r)
    \/ InsertRowOk(r)
    \/ InsertRowDuplicate(r)
    \/ InsertRowError(r)
    \/ InsertDone(r)
    \/ Summary(r)

Next == \E r \in Runs : SerialFetch(r) \/ RunStep(r)

\* Serialized runs, as the design asks of the callers
Spec == Init /\ [][Next]_vars

\* Longest batch in the system of overlapping runs
MaxOverlapBatch == 2

InitOverlap ==
    /\ apiData \in SeqsUpTo(RawPool, MaxOverlapBatch)
    /\ store \in InitialStores
    /\ run = [r \in Runs |-> InitRun]
    /\ fn_input = <<>>
    /\ fn_output = NoOutput

NextOverlap == \E r \in Runs : Fetch(r) \/ RunStep(r)

\* Runs that may overlap in any way (nothing in the code serializes them)
SpecOverlap == InitOverlap /\ [][NextOverlap]_vars

\* ------------------------------------------------------------------------
\* Properties
\* ------------------------------------------------------------------------

Range(q) == {q[i] : i \in 1..Len(q)}

\* number of positions of q that hold x
Count(q, x) == Cardinality({i \in 1..Len(q) : q[i] = x})

Did(r, step) == step \in Range(run[r].h_steps)

KeyOf(row) == row.student_attendance_data_unique_key

\* C1: the final record set handed to insert_data_to_mysql never holds two
\* records with the same identity key.
C1_FinalKeysDistinct ==
    \A r \in Runs :
        Did(r, "dedup") =>
            \A i, j \in 1..Len(run[r].new_data_df) :
                i # j => KeyOf(run[r].new_data_df[i]) # KeyOf(run[r].new_data_df[j])

\* C2: deduplicate_by_studentid returns exactly one record per
\* natural-identity group of the new candidates, it is one of the
\* candidates, and no candidate of the group has a higher
\* attendance_percentage.
C2_OnePerGroupWithMaxAttendance ==
    \A r \in Runs :
        Did(r, "dedup") =>
            LET cand == run[r].h_filtered
                final == run[r].new_data_df
            IN /\ \A j \in 1..Len(final) : final[j] \in Range(cand)
               /\ \A i \in 1..Len(cand) :
                    LET kept == {j \in 1..Len(final) :
                                    natural_id(final[j]) = natural_id(cand[i])}
                    IN /\ Cardinality(kept) = 1
                       /\ \A j \in kept :
                            final[j].attendance_percentage
                                >= cand[i].attendance_percentage

\* C2 witness: candidates with 80 and 95 for one identity left only the 95 row.
C2_Witness ==
    \E r \in Runs :
        /\ Did(r, "dedup")
        /\ \E i, k \in 1..Len(run[r].h_filtered) :
              /\ natural_id(run[r].h_filtered[i]) = natural_id(run[r].h_filtered[k])
              /\ run[r].h_filtered[i].attendance_percentage = 80
              /\ run[r].h_filtered[k].attendance_percentage = 95
              /\ \A j \in 1..Len(run[r].new_data_df) :
                    natural_id(run[r].new_data_df[j]) = natural_id(run[r].h_filtered[i])
                        => run[r].new_data_df[j].attendance_percentage = 95

\* C3: the incremental filter returns exactly the records of the batch whose
\* key is not in the snapshot, each with all its fields unchanged.
C3_FilterIsSetSubtraction ==
    \A r \in Runs :
        Did(r, "filter") =>
            LET B == run[r].df
                E == run[r].unique_keys_from_mysql
                F == run[r].h_filtered
            IN /\ \A i \in 1..Len(F) : KeyOf(F[i]) \notin E
               /\ \A x \in Range(B) \cup Range(F) :
                    Count(F, x) = IF KeyOf(x) \notin E THEN Count(B, x) ELSE 0

\* C3 witness: a batch of which the filter dropped one record and kept another.
C3_Witness ==
    \E r \in Runs :
        /\ Did(r, "filter")
        /\ \E i, j \in 1..Len(run[r].df) :
              /\ KeyOf(run[r].df[i]) \in run[r].unique_keys_from_mysql
              /\ KeyOf(run[r].df[j]) \notin run[r].unique_keys_from_mysql
              /\ run[r].df[j] \in Range(run[r].h_filtered)

\* C4: the statistics a complete run returns satisfy new_records_to_process
\* = new_records_inserted + duplicates_removed + duplicate_records_skipped
\* + error_records.
C4_StatsConservation ==
    \A r \in Runs :
        run[r].pc = "done" =>
            run[r].stats.new_records_to_process
                = run[r].stats.new_records_inserted
                  + run[r].stats.duplicates_removed
                  + run[r].stats.duplicate_records_skipped
                  + run[r].stats.error_records

\* C4 witness: a complete run that removed a duplicate, inserted a row and
\* had a row rejected as a duplicate by the store.
C4_Witness ==
    \E r \in Runs :
        /\ run[r].pc = "done"
        /\ run[r].stats.duplicates_removed > 0
        /\ run[r].stats.new_records_inserted > 0
        /\ run[r].stats.duplicate_records_skipped > 0

StoreKeysUnique ==
    \A i, j \in 1..Len(store) : i # j => KeyOf(store[i]) # KeyOf(store[j])

\* C5: whatever the interleaving of runs, the table never holds two rows with
\* the same identity key, stored rows are never changed, and an insert
\* rejected as a duplicate leaves the table as it was.
C5_StoreKeysUniqueAndStable ==
    [][ /\ StoreKeysUnique
        /\ StoreKeysUnique'
        /\ Len(store') >= Len(store)
        /\ SubSeq(store', 1, Len(store)) = store
        /\ \A r \in Runs :
              run'[r].h_outcomes = Append(run[r].h_outcomes, "duplicate")
                  => store' = store ]_vars

\* C5 witness: two runs read the same snapshot, each inserted a row absent
\* from it, and one had a row rejected whose key the other had inserted.
C5_Witness ==
    \E r, q \in Runs :
        /\ r # q
        /\ run[r].h_snapshot = "ok"
        /\ run[q].h_snapshot = "ok"
        /\ run[r].unique_keys_from_mysql = run[q].unique_keys_from_mysql
        /\ "inserted" \in Range(run[r].h_outcomes)
        /\ \E i \in 1..Len(run[r].h_outcomes), k \in 1..Len(run[q].h_outcomes) :
              /\ run[r].h_outcomes[i] = "duplicate"
              /\ run[q].h_outcomes[k] = "inserted"
              /\ run[q].h_offered[k] = run[r].h_offered[i]
              /\ KeyOf(run[r].h_offered[i]) \notin run[r].unique_keys_from_mysql

\* C6: when a persist call fails with a non-duplicate error no further
\* persist call is made, and error_records counts the failing row and the
\* rows after it, not the rows handled before the failure.
C6_ErroredAreTheUnpersistedRows ==
    \A r \in Runs :
        (run[r].pc \in {"summary", "done"} /\ "error" \in Range(run[r].h_outcomes)) =>
            /\ run[r].h_outcomes[Len(run[r].h_outcomes)] = "error"
            /\ run[r].stats.error_records
                 = Len(run[r].new_data_df) - (Len(run[r].h_offered) - 1)

InsertLoopCompleted(r) ==
    "inserted_all" \in Range(run[r].h_steps) =>
        /\ run[r].h_offered = run[r].new_data_df
        /\ run[r].stats.duplicate_records_skipped
             = Count(run[r].h_outcomes, "duplicate")
        /\ run[r].stats.new_records_inserted
             = Count(run[r].h_outcomes, "inserted")

\* C7: a row the store rejects with errno 1062 is counted as a skipped
\* duplicate and is not inserted, the error is not escalated (the loop goes
\* on with the next row), and when the loop ends every row of the final set
\* has been offered and the skipped count is the number of rejections.
C7_DuplicateIsSkippedNotEscalated ==
    [][ \A r \in Runs :
          /\ run'[r].h_outcomes = Append(run[r].h_outcomes, "duplicate") =>
                /\ store' = store
                /\ run'[r].duplicate_count = run[r].duplicate_count + 1
                /\ run'[r].inserted_count = run[r].inserted_count
                /\ run'[r].error_count = run[r].error_count
                /\ run'[r].stats = run[r].stats
                /\ run'[r].pc = "insert"
                /\ run'[r].row_index = run[r].row_index + 1
          /\ InsertLoopCompleted(r)' ]_vars

\* C7 witness: a complete run in which a row was rejected as a duplicate and
\* a later row was inserted.
C7_Witness ==
    \E r \in Runs :
        /\ run[r].pc = "done"
        /\ run[r].stats.duplicate_records_skipped > 0
        /\ \E i, k \in 1..Len(run[r].h_outcomes) :
              /\ i < k
              /\ run[r].h_outcomes[i] = "duplicate"
              /\ run[r].h_outcomes[k] = "inserted"

\* C8: no exception leaves fetch_data_from_api_and_process, whatever the
\* collaborators do.
C8_NoExceptionEscapes ==
    \A r \in Runs : run[r].pc # "raised"

StageRank(step) ==
    CASE step = "fetch" -> 1
      [] step = "clean" -> 2
      [] step = "key" -> 3
      [] step = "snapshot" -> 4
      [] step = "filter" -> 5
      [] step = "dedup" -> 6
      [] step = "connect" -> 7
      [] step = "inserted_all" -> 8
      [] step = "summary" -> 9

\* C9: the stages of a run occur in the order normalize, derive key, filter,
\* resolve duplicates, persist; when the key has been derived it is the key
\* of the normalized fields,
\* only records that passed the filter reach the resolver and the final set,
\* and only records of the final set are offered to the store.
C9_StagesInOrder ==
    \A r \in Runs :
        LET steps == run[r].h_steps
            final == run[r].new_data_df
        IN /\ \A i \in 1..(Len(steps) - 1) :
                StageRank(steps[i]) < StageRank(steps[i + 1])
           /\ Did(r, "summary") \/ \A n \in 1..Len(steps) : StageRank(steps[n]) = n
           /\ run[r].pc = "snapshot" =>
                \A i \in 1..Len(run[r].df) :
                    /\ KeyOf(run[r].df[i]) = unique_key(run[r].df[i])
                    /\ run[r].df[i].grade_name
                         = StrStrip(convert_grade_name(run[r].data[i].grade_name))
           /\ Did(r, "dedup") =>
                \A j \in 1..Len(final) :
                    /\ final[j] \in Range(run[r].h_filtered)
                    /\ KeyOf(final[j]) \notin run[r].unique_keys_from_mysql
           /\ run[r].h_offered # <<>> => Did(r, "dedup") /\ Did(r, "connect")
           /\ Len(run[r].h_offered) <= Len(final)
           /\ run[r].h_offered = SubSeq(final, 1, Len(run[r].h_offered))

\* C9 witness: a run whose filter dropped a stored record, whose resolver
\* dropped a duplicate, and which inserted a survivor.
C9_Witness ==
    \E r \in Runs :
        /\ Len(run[r].h_filtered) < Len(run[r].df)
        /\ Did(r, "dedup")
        /\ Len(run[r].new_data_df) < Len(run[r].h_filtered)
        /\ "inserted" \in Range(run[r].h_outcomes)

SnapshotUse(r) ==
    /\ run[r].h_snapshot_reads <= 1
    /\ Did(r, "filter") =>
          /\ run[r].h_snapshot_reads = 1
          /\ \A i \in 1..Len(run[r].df) :
                run[r].df[i] \in Range(run[r].h_filtered)
                    <=> KeyOf(run[r].df[i]) \notin run[r].unique_keys_from_mysql
    /\ run[r].h_offered # <<>> =>
          run[r].h_snapshot_reads = 1 /\ Did(r, "filter")

\* C10: a run reads the key snapshot at most once, and exactly once before
\* any filtering decision and before the first persist call; once read, the
\* snapshot and the filtering decisions made with it do not change, also
\* while the run's own inserts change the table.
C10_OneSnapshotPerRun ==
    [][ \A r \in Runs :
          /\ SnapshotUse(r)
          /\ SnapshotUse(r)'
          /\ run[r].h_snapshot_reads = 1 =>
                run'[r].unique_keys_from_mysql = run[r].unique_keys_from_mysql
          /\ Did(r, "filter") => run'[r].h_filtered = run[r].h_filtered ]_vars

\* C10 witness: a complete run that filtered a record out with its snapshot
\* and then inserted rows, so that the table no longer equals the snapshot.
C10_Witness ==
    \E r \in Runs :
        /\ run[r].pc = "done"
        /\ run[r].h_snapshot_reads = 1
        /\ Len(run[r].h_filtered) < Len(run[r].df)
        /\ "inserted" \in Range(run[r].h_outcomes)
        /\ stored_keys(store) # run[r].unique_keys_from_mysql

\* The fetch of run r returned an empty batch: an empty list, or a 'data'
\* field that is not a list
EmptyBatch(r) == run[r].h_fetch \in {"empty_list", "not_a_list"}

\* C11: a run whose fetched batch is empty (an empty list, or a 'data' field
\* that is not a list) reads no snapshot, offers no row to the table, raises
\* nothing, and all its statistics counted after the fetch stay zero: after
\* cleaning, existing, new candidates, duplicates removed, inserted, skipped
\* and errored; it goes from the fetch straight to the summary.
C11_EmptyBatchDoesNothing ==
    \A r \in Runs :
        EmptyBatch(r) =>
            /\ run[r].h_snapshot_reads = 0
            /\ run[r].h_snapshot = "none"
            /\ run[r].h_offered = <<>>
            /\ run[r].h_outcomes = <<>>
            /\ run[r].pc \in {"summary", "done"}
            /\ run[r].h_steps \in {<<"fetch">>, <<"fetch", "summary">>}
            /\ run[r].stats = InitStats
            /\ run[r].df = <<>>
            /\ run[r].new_data_df = <<>>

\* Both kinds of empty batch have been fetched and their runs have ended
\* (r1 got a 'data' field that is not a list, r2 an empty list)
C11_Witness ==
    /\ run["r1"].h_fetch = "not_a_list" /\ run["r1"].pc = "done"
    /\ run["r2"].h_fetch = "empty_list" /\ run["r2"].pc = "done"

\* ------------------------------------------------------------------------
\* The identity key of two records of one batch (lines 322-340)
\* ------------------------------------------------------------------------

\* The fields the key is built from
KeyFields == {"academic_year", "month", "school_name", "grade_name", "student_id"}

KeySchools == {<<"X">>, <<" ","X">>, <<"X","|","Y">>}

KeyGrades ==
    {<<"G","R","A","D","E"," ","I","V">>,
     <<"G","R","A","D","E"," ","4">>,
     <<"Y","|","G","R","A","D","E"," ","4">>}

KeyStudentIds == {<<"S","1">>, <<"S","2">>}

\* Raw records over these schools, grades and student ids, each with the
\* other fields of RawBase or those of RawOtherSchool
KeyRaws ==
    {[rest EXCEPT !.school_name = school, !.grade_name = grade,
                  !.student_id = sid] :
        rest \in {RawBase, RawOtherSchool}, school \in KeySchools,
        grade \in KeyGrades, sid \in KeyStudentIds}

InitKey ==
    /\ fn_input \in {<<a, b>> : a \in KeyRaws, b \in KeyRaws}
    /\ fn_output = NoOutput
    /\ apiData = <<>>
    /\ store = <<>>
    /\ run = [r \in Runs |-> InitRun]

\* The batch fn_input is cleaned and keyed as lines 322-340 do
DeriveKeys ==
    /\ fn_output = NoOutput
    /\ fn_output' = [fn |-> "unique_key", out |-> key_batch(clean_batch(fn_input))]
    /\ UNCHANGED <<apiData, store, run, fn_input>>

NextKey == DeriveKeys

SpecKey == InitKey /\ [][NextKey]_vars

Keyed == fn_output.fn = "unique_key"

KeyOfRecord(i) == fn_output.out[i].student_attendance_data_unique_key

SameKeyFields(i, j) == \A f \in KeyFields : fn_output.out[i][f] = fn_output.out[j][f]

\* C12: the identity key is academic_year|month|school_name|grade_name|
\* student_id over the normalized, trimmed fields: a record of school X (or
\* " X"), student S1 and grade GRADE IV or GRADE 4 has the key
\* 2024-2025|June|X|GRADE 4|S1, and two records that agree on the five
\* normalized values have the same key whatever their other fields are.
C12_KeyFromFiveNormalizedFields ==
    Keyed =>
        /\ \A i \in 1..2 :
              ( /\ fn_input[i].school_name \in {<<"X">>, <<" ","X">>}
                /\ fn_input[i].grade_name \in
                      {<<"G","R","A","D","E"," ","I","V">>, <<"G","R","A","D","E"," ","4">>}
                /\ fn_input[i].student_id = <<"S","1">> )
              => KeyOfRecord(i) =
                   <<"2","0","2","4","-","2","0","2","5","|","J","u","n","e","|",
                     "X","|","G","R","A","D","E"," ","4","|","S","1">>
        /\ SameKeyFields(1, 2) => KeyOfRecord(1) = KeyOfRecord(2)

\* Two records that differ in raw grade spelling (GRADE IV, GRADE 4), in raw
\* school spelling, and in gender, name, date, division and attendance, have
\* been given one key
C12_Witness ==
    /\ Keyed
    /\ fn_input[1].grade_name = <<"G","R","A","D","E"," ","I","V">>
    /\ fn_input[2].grade_name = <<"G","R","A","D","E"," ","4">>
    /\ fn_input[1].school_name = <<"X">>
    /\ fn_input[2].school_name = <<" ","X">>
    /\ fn_input[1].gender # fn_input[2].gender
    /\ fn_input[1].attendance_percentage # fn_input[2].attendance_percentage
    /\ fn_input[1].student_id = fn_input[2].student_id
    /\ KeyOfRecord(1) = KeyOfRecord(2)

\* C13: two records that differ in at least one of the five normalized key
\* fields never have the same identity key, also when a field value
\* contains the separator.
C13_KeyIdentifiesItsCombination ==
    Keyed => (KeyOfRecord(1) = KeyOfRecord(2) => SameKeyFields(1, 2))

\* ------------------------------------------------------------------------
\* The field normalizers of utils.py called on one raw value
\* ------------------------------------------------------------------------

\* A Python value handed to a normalizer: a str, None, or a number; and the
\* exception a call ends with in the place of a return value
PyStr(s) == [kind |-> "str", str |-> s, num |-> 0]
PyNone == [kind |-> "none", str |-> <<>>, num |-> 0]
PyNum(n) == [kind |-> "num", str |-> <<>>, num |-> n]
Raised(exception) == [kind |-> "raised", str |-> exception, num |-> 0]

\* bool(value)
Truthy(v) ==
    CASE v.kind = "str" -> v.str # <<>>
      [] v.kind = "num" -> v.num # 0
      [] OTHER -> FALSE

\* s.replace(c, "")
RemoveChar(s, c) == SelectSeq(s, LAMBDA x : x # c)

nursery_variants ==
    { <<"N","U","R","S","E","R","Y">>, <<"N","U","R","S","A","R","Y">>,
      <<"N","U","R","S","R","Y">>, <<"N","U","R","S","E","Y">>,
      <<"N","U","R","S","E","R","R","R","Y">>, <<"N","U","R">> }

jrkg_variants ==
    { <<"J","R","K","G">>, <<"J","R","K","G","C","L","A","S","S">>,
      <<"J","R","K","G","K","I","D","S">>,
      <<"J","R","K","I","N","D","E","R","G","A","R","T","E","N">> }

srkg_variants ==
    { <<"S","R","K","G">>, <<"S","R","K","G","C","L","A","S","S">>,
      <<"S","R","K","G","K","I","D","S">>,
      <<"S","R","K","I","N","D","E","R","G","A","R","T","E","N">> }

\* The characters of the class [IVXLCDM]
RomanChars == {"I", "V", "X", "L", "C", "D", "M"}

\* The characters matching \d
DigitChars == {"0", "1", "2", "3", "4", "5", "6", "7", "8", "9"}

\* The group of re.match(r"GRADE\s+([<class>]+)$", value_upper), <<>> when
\* there is no match: value_upper is GRADE, one or more spaces, and then
\* one or more characters of the class up to its end
GradeGroup(value_upper, class) ==
    IF /\ Len(value_upper) >= 7
       /\ SubSeq(value_upper, 1, 5) = <<"G","R","A","D","E">>
       /\ IsSpaceChar(value_upper[6])
    THEN LET rest == SubSeq(value_upper, 6, Len(value_upper))
             first == SetMin({i \in 1..Len(rest) : ~IsSpaceChar(rest[i])} \cup {Len(rest) + 1})
             group == SubSeq(rest, first, Len(rest))
         IN IF group # <<>> /\ \A i \in 1..Len(group) : group[i] \in class
            THEN group ELSE <<>>
    ELSE <<>>

\* convert_grade_name_utils with line 16 not removing the spaces
convert_grade_name_utils_keeps_spaces(value) ==
    LET value_upper == StrUpper(StrStrip(value))
        cleaned == RemoveChar(value_upper, ".")
        roman == GradeGroup(value_upper, RomanChars)
        number == GradeGroup(value_upper, DigitChars)
    IN IF cleaned \in nursery_variants THEN <<"N","U","R","S","E","R","Y">>
       ELSE IF cleaned \in jrkg_variants THEN <<"J","R",".","K","G">>
       ELSE IF cleaned \in srkg_variants THEN <<"S","R",".","K","G">>
       ELSE IF roman # <<>>
            THEN IF InRomanTable(roman) THEN GradePrefix \o RomanNumber(roman)
                 ELSE GradePrefix \o roman
       ELSE IF number # <<>> THEN GradePrefix \o IntToStr(StrToInt(number))
       ELSE value_upper

\* convert_grade_name of utils.py, lines 15-53, for a non-empty str
convert_grade_name_utils(value) ==
    LET value_upper == StrUpper(StrStrip(value))
        cleaned == RemoveChar(RemoveChar(value_upper, "."), " ")
        roman == GradeGroup(value_upper, RomanChars)
        number == GradeGroup(value_upper, DigitChars)
    IN IF cleaned \in nursery_variants THEN <<"N","U","R","S","E","R","Y">>
       ELSE IF cleaned \in jrkg_variants THEN <<"J","R",".","K","G">>
       ELSE IF cleaned \in srkg_variants THEN <<"S","R",".","K","G">>
       ELSE IF roman # <<>>
            THEN IF InRomanTable(roman) THEN GradePrefix \o RomanNumber(roman)
                 ELSE GradePrefix \o roman
       ELSE IF number # <<>> THEN GradePrefix \o IntToStr(StrToInt(number))
       ELSE value_upper

\* The calls, on any Python value. re.sub, re.search and strptime raise
\* TypeError for an argument that is not a str; format_date_column catches
\* ValueError only; convert_grade_name and clean_gender return a falsy or
\* non-str argument as it is.
call_clean_student_name(v) ==
    IF v.kind = "str" THEN PyStr(clean_student_name(v.str))
    ELSE Raised("TypeError")

call_convert_grade_name(v) ==
    IF ~Truthy(v) \/ v.kind # "str" THEN v
    ELSE PyStr(convert_grade_name_utils(v.str))

call_format_date_column(v) ==
    IF v.kind = "str" THEN PyStr(format_date_column(v.str))
    ELSE Raised("TypeError")

call_clean_gender(v) ==
    IF ~Truthy(v) \/ v.kind # "str" THEN v
    ELSE PyStr(clean_gender(v.str))

call_extract_division(v) ==
    IF v.kind = "str" THEN PyStr(extract_division(v.str))
    ELSE Raised("TypeError")

\* Raw grade_name values
GradeSamples ==
    {<<"J","r",".","K","G">>, <<"J","R","K","G">>, <<"J","R"," ","K","G">>,
     <<"j","r","."," ","k","g"," ","c","l","a","s","s">>,
     <<" ","S","r",".","K","g"," ">>,
     <<"S","R"," ","K","I","N","D","E","R","G","A","R","T","E","N">>,
     <<"s","r","k","g","k","i","d","s">>,
     <<"J","r"," ","K","i","n","d","e","r","g","a","r","t","e","n">>,
     <<"N","u","r","s","e","r","y">>, <<"N","U","R">>,
     <<"n","u","r"," ","s","e","r","y">>, <<"N",".","U",".","R",".">>,
     <<"N","U","R","S","E","R","R","R","Y">>, <<"n","u","r","s","a","r","y">>,
     <<"N","u","r","s","e","y">>, <<"N","U","R","S","R","Y">>,
     <<"J","R","K","G","K","I","D","S">>,
     <<"S","R",".","K","G"," ","C","L","A","S","S">>,
     <<"G","R","A","D","E"," ","I","V">>, <<"g","r","a","d","e"," ","i","v">>,
     <<"G","R","A","D","E"," "," ","X","I","I">>,
     <<"G","r","a","d","e"," ","V","i","i","i">>,
     <<"G","R","A","D","E"," ","4">>, <<"G","R","A","D","E"," ","0","4">>,
     <<"g","r","a","d","e"," ","1","0"," ">>,
     <<"G","R","A","D","E"," ","X","I","I","I">>,
     <<"G","R","A","D","E"," "," ","M","D">>, <<"G","R","A","D","E","I","V">>,
     <<"G","R","A","D","E"," ","I","V"," ","A">>, <<"G","R","A","D","E">>,
     <<"K","G"," ","1">>, <<"G","R","A","D","E",".","I","V">>,
     <<"G","R","A","D","E"," ","4","B">>}

\* Raw gender values
GenderSamples ==
    {<<"M","a","l","e">>, <<" ","M","A","L","E"," ">>, <<"m">>,
     <<"M","a","n">>, <<"b","o","y">>,
     <<"M","a","s","c","u","l","i","n","e">>, <<"F","e","m","a","l","e">>,
     <<"F"," ">>, <<"w","o","m","a","n">>, <<" ","G","i","r","l"," ">>,
     <<"f","e","m","i","n","i","n","e">>, <<"O","t","h","e","r"," ">>,
     <<" ","o","t","h","e","r">>, <<"m","a","l","e","s">>, <<"N","/","A">>,
     <<"f","e"," ","m","a","l","e">>}

\* Raw date values
DateSamples ==
    {<<"0","5","/","0","6","/","2","0","2","4">>,
     <<"5","/","6","/","2","0","2","4">>,
     <<" ","5","/","0","6","/","2","0","2","4">>,
     <<"0","5","/","6","/","2","0","2","4">>,
     <<"5","/","0","6","/","2","0","2","4">>,
     <<"0","5","/","1","3","/","2","0","2","4">>,
     <<"2","9","/","0","2","/","2","0","2","4">>,
     <<"2","9","/","0","2","/","2","0","2","3">>,
     <<"3","1","/","0","4","/","2","0","2","4">>,
     <<"0","5","/","0","6","/","2","4">>,
     <<"2","0","2","4","-","0","6","-","0","5">>,
     <<"0","5","-","0","6","-","2","0","2","4">>,
     <<"0","5","/","0","6","/","2","0","2","4"," ">>,
     <<"0","0","/","0","6","/","2","0","2","4">>,
     <<"0","5","/","0","6","/","0","0","0","0">>,
     <<"0","5","/","0","6","/","0","9","9","9">>,
     <<"3","1","/","1","2","/","1","9","9","9">>,
     <<"0","5","/"," ","6","/","2","0","2","4">>, <<"5","/","6","/","2","4">>}

\* Raw student_name values
NameSamples ==
    {<<"a","n","n"," "," ","l","e","e">>, <<" ","b","o"," ">>,
     <<"o","'","n","e","i","l">>,
     <<"A","N","N","-","m","a","r","i","e"," ","x","2","y">>, <<"A">>}

\* Raw division_name values
DivisionSamples ==
    {<<"A","-","1">>, <<"2">>, <<"b">>, <<"1","2","C","d","3","e">>, <<"-">>}

\* Longest generated raw string
MaxValueLen == 2

ValueAlphabet == {" ", ".", "a", "M", "f", "1", "/", "I"}

RawStrings ==
    SeqsUpTo(ValueAlphabet, MaxValueLen) \cup GradeSamples \cup GenderSamples
        \cup DateSamples \cup NameSamples \cup DivisionSamples

\* What a field of a record of the API response can hold
RawValues == {PyStr(s) : s \in RawStrings} \cup {PyNone, PyNum(0), PyNum(7)}

InitNormalize ==
    /\ fn_input \in RawValues
    /\ fn_output = NoOutput
    /\ apiData = <<>>
    /\ store = <<>>
    /\ run = [r \in Runs |-> InitRun]

\* What a first call gave and, unless it raised, what the call on its
\* result gave
TwoCalls(first, second) ==
    IF first.kind = "raised" THEN <<first>> ELSE <<first, second>>

CallCleanStudentName ==
    /\ fn_output = NoOutput
    /\ fn_output' = [fn |-> "clean_student_name",
                     out |-> TwoCalls(call_clean_student_name(fn_input),
                                         call_clean_student_name(call_clean_student_name(fn_input)))]
    /\ UNCHANGED <<apiData, store, run, fn_input>>

CallConvertGradeName ==
    /\ fn_output = NoOutput
    /\ fn_output' = [fn |-> "convert_grade_name",
                     out |-> TwoCalls(call_convert_grade_name(fn_input),
                                         call_convert_grade_name(call_convert_grade_name(fn_input)))]
    /\ UNCHANGED <<apiData, store, run, fn_input>>

CallFormatDateColumn ==
    /\ fn_output = NoOutput
    /\ fn_output' = [fn |-> "format_date_column",
                     out |-> TwoCalls(call_format_date_column(fn_input),
                                         call_format_date_column(call_format_date_column(fn_input)))]
    /\ UNCHANGED <<apiData, store, run, fn_input>>

CallCleanGender ==
    /\ fn_output = NoOutput
    /\ fn_output' = [fn |-> "clean_gender",
                     out |-> TwoCalls(call_clean_gender(fn_input),
                                         call_clean_gender(call_clean_gender(fn_input)))]
    /\ UNCHANGED <<apiData, store, run, fn_input>>

CallExtractDivision ==
    /\ fn_output = NoOutput
    /\ fn_output' = [fn |-> "extract_division",
                     out |-> TwoCalls(call_extract_division(fn_input),
                                         call_extract_division(call_extract_division(fn_input)))]
    /\ UNCHANGED <<apiData, store, run, fn_input>>

\* The record RawBase with gender fn_input as a batch of its own, through
\* cleaning, keying, filtering against the snapshot of an empty table,
\* deduplication, and the insert into that table: out is the table after it
PersistWithGender ==
    /\ fn_input.kind = "str"
    /\ fn_output = NoOutput
    /\ LET data == <<[RawBase EXCEPT !.gender = fn_input.str]>>
           df == key_batch(clean_batch(data))
           new_data_df == deduplicate_by_studentid(filter_new(df, stored_keys(<<>>)))
       IN fn_output' = [fn |-> "persist",
                        out |-> IF new_data_df = <<>> THEN <<>>
                                ELSE table_after_insert(<<>>, new_data_df[1])]
    /\ UNCHANGED <<apiData, store, run, fn_input>>

\* convert_grade_name of student_attendance_monthly.py on any Python value:
\* the comparisons with "Jr.KG" and "Sr.KG" are false for a value that is
\* not a str and pattern.search raises TypeError for it
call_convert_grade_name_monthly(v) ==
    IF v.kind = "str" THEN PyStr(convert_grade_name(v.str))
    ELSE Raised("TypeError")

\* The raw grade_name fn_input normalized by the standalone monthly script
\* and by utils.py, which main.py uses
CallBothGradeNormalizers ==
    /\ fn_output = NoOutput
    /\ fn_output' = [fn |-> "grade_normalizers",
                     out |-> <<call_convert_grade_name_monthly(fn_input),
                               call_convert_grade_name(fn_input)>>]
    /\ UNCHANGED <<apiData, store, run, fn_input>>

NextNormalize ==
    \/ CallCleanStudentName
    \/ CallConvertGradeName
    \/ CallFormatDateColumn
    \/ CallCleanGender
    \/ CallExtractDivision
    \/ PersistWithGender
    \/ CallBothGradeNormalizers

SpecNormalize == InitNormalize /\ [][NextNormalize]_vars

Normalizers ==
    {"clean_student_name", "convert_grade_name", "format_date_column",
     "clean_gender", "extract_division"}

\* A normalizer has been called on the string fn_input
NormalizedStr == fn_output.fn \in Normalizers /\ fn_input.kind = "str"

C15_NormalizersTotal ==
    fn_output.fn \in Normalizers =>
        \A i \in 1..Len(fn_output.out) : fn_output.out[i].kind # "raised"

\* convert_grade_name has been called on a non-empty string
GradeConverted ==
    /\ fn_output.fn = "convert_grade_name"
    /\ fn_input.kind = "str"
    /\ fn_input.str # <<>>

Spaces(k) == [i \in 1..k |-> " "]

\* The token of a label GRADE <token>: what follows GRADE and one or more
\* spaces (no token: the empty set)
GradeTokens(label) ==
    {SubSeq(label, 6 + k, Len(label)) :
        k \in {j \in 1..(Len(label) - 6) :
                 /\ SubSeq(label, 1, 5 + j) = <<"G","R","A","D","E">> \o Spaces(j)
                 /\ label[6 + j] # " "}}

IsRomanToken(tok) == tok # <<>> /\ \A i \in 1..Len(tok) : tok[i] \in RomanChars

IsArabicToken(tok) == tok # <<>> /\ \A i \in 1..Len(tok) : IsDigitChar(tok[i])

\* Raw spellings and the label the specification gives for them
GradeExamples ==
    { << <<"J","r",".","K","G">>, <<"J","R",".","K","G">> >>,
      << <<"J","R","K","G">>, <<"J","R",".","K","G">> >>,
      << <<"J","R"," ","K","G">>, <<"J","R",".","K","G">> >>,
      << <<" ","S","r",".","K","g"," ">>, <<"S","R",".","K","G">> >>,
      << <<"n","u","r"," ","s","e","r","y">>, <<"N","U","R","S","E","R","Y">> >>,
      << <<"N","U","R">>, <<"N","U","R","S","E","R","Y">> >>,
      << <<"G","R","A","D","E"," ","I","V">>, <<"G","R","A","D","E"," ","4">> >>,
      << <<"G","R","A","D","E"," "," ","X","I","I">>, <<"G","R","A","D","E"," ","1","2">> >>,
      << <<"G","R","A","D","E"," ","4">>, <<"G","R","A","D","E"," ","4">> >>,
      << <<"G","R","A","D","E"," ","X","I","I","I">>, <<"G","R","A","D","E"," ","X","I","I","I">> >>,
      << <<"K","G"," ","1">>, <<"K","G"," ","1">> >>,
      << <<"g","r","a","d","e"," ","1","0"," ">>, <<"G","R","A","D","E"," ","1","0">> >> }

\* C16: convert_grade_name of utils.py maps every known variant of Nursery,
\* Jr.KG and Sr.KG (case, dots and spaces ignored) to NURSERY, JR.KG and
\* SR.KG; GRADE <Roman I..XII> and GRADE <Arabic> to GRADE <Arabic>;
\* GRADE <Roman token outside the table> to GRADE <token>; and anything
\* else to the trimmed, upper-cased input.
C16_GradeNormalization ==
    GradeConverted =>
        LET label == StrUpper(StrStrip(fn_input.str))
            squeezed == SelectSeq(label, LAMBDA c : c \notin {".", " "})
            toks == {t \in GradeTokens(label) : IsRomanToken(t) \/ IsArabicToken(t)}
            out == fn_output.out[1].str
        IN /\ fn_output.out[1].kind = "str"
           /\ \A e \in GradeExamples : fn_input.str = e[1] => out = e[2]
           /\ IF squeezed \in nursery_variants THEN out = <<"N","U","R","S","E","R","Y">>
              ELSE IF squeezed \in jrkg_variants THEN out = <<"J","R",".","K","G">>
              ELSE IF squeezed \in srkg_variants THEN out = <<"S","R",".","K","G">>
              ELSE IF toks = {} THEN out = label
              ELSE \A t \in toks :
                     /\ InRomanTable(t) => out = <<"G","R","A","D","E"," ">> \o RomanNumber(t)
                     /\ IsRomanToken(t) /\ ~InRomanTable(t)
                          => out = <<"G","R","A","D","E"," ">> \o t
                     /\ IsArabicToken(t)
                          => out = <<"G","R","A","D","E"," ">> \o IntToStr(StrToInt(t))

\* The variant JR KG, written with a space, has been mapped to JR.KG
C16_Witness ==
    /\ GradeConverted
    /\ fn_input.str = <<"J","R"," ","K","G">>
    /\ fn_output.out[1] = PyStr(<<"J","R",".","K","G">>)

\* C17: clean_gender returns M for the case and whitespace variants of
\* male, m, man, boy, masculine, F for those of female, f, woman, girl,
\* feminine, and any other string unchanged; a record with such a gender is
\* not rejected: it is cleaned, keyed, passes the filter and the
\* deduplication and is stored, with the trimmed gender value.
C17_GenderMappedOrKept ==
    LET word == StrLower(StrStrip(fn_input.str))
        males == { <<"m","a","l","e">>, <<"m">>, <<"m","a","n">>, <<"b","o","y">>,
                   <<"m","a","s","c","u","l","i","n","e">> }
        females == { <<"f","e","m","a","l","e">>, <<"f">>, <<"w","o","m","a","n">>,
                     <<"g","i","r","l">>, <<"f","e","m","i","n","i","n","e">> }
        expected == IF word \in males THEN <<"M">>
                    ELSE IF word \in females THEN <<"F">>
                    ELSE fn_input.str
    IN /\ (fn_output.fn = "clean_gender" /\ fn_input.kind = "str")
            => fn_output.out[1] = PyStr(expected)
       /\ fn_output.fn = "persist"
            => /\ Len(fn_output.out) = 1
               /\ fn_output.out[1].gender = StrStrip(expected)
               /\ fn_output.out[1].student_attendance_data_unique_key
                    = <<"2","0","2","4","-","2","0","2","5","|","J","u","n","e","|",
                        "X","|","G","R","A","D","E"," ","4","|","S","1">>

\* A record whose gender is not recognised has been stored with it
C17_Witness ==
    /\ fn_output.fn = "persist"
    /\ fn_input = PyStr(<<"O","t","h","e","r"," ">>)
    /\ Len(fn_output.out) = 1
    /\ fn_output.out[1].gender = <<"O","t","h","e","r">>

\* s is a zero-padded dd/mm/yyyy string naming a calendar date
StrictDate(s) ==
    /\ Len(s) = 10
    /\ s[3] = "/" /\ s[6] = "/"
    /\ \A i \in {1, 2, 4, 5, 7, 8, 9, 10} : IsDigitChar(s[i])
    /\ StrToInt(SubSeq(s, 7, 10)) >= 1
    /\ StrToInt(SubSeq(s, 4, 5)) \in 1..12
    /\ StrToInt(SubSeq(s, 1, 2)) >= 1
    /\ StrToInt(SubSeq(s, 1, 2))
         <= DaysInMonth(StrToInt(SubSeq(s, 7, 10)), StrToInt(SubSeq(s, 4, 5)))

\* C18: format_date_column rewrites its input to year-month-day only when
\* the input is a strict, zero-padded day/month/year string with a 4-digit
\* year naming a valid calendar date; every other string, such as
\* 05/13/2024 or one whose day or month is not zero-padded, is returned
\* unchanged.
C18_OnlyStrictDatesRewritten ==
    (fn_output.fn = "format_date_column" /\ fn_input.kind = "str") =>
        LET s == fn_input.str
            out == fn_output.out[1].str
        IN IF StrictDate(s)
           THEN /\ out # s
                /\ StrToInt(SubSeq(s, 7, 10)) >= 1000
                     => out = SubSeq(s, 7, 10) \o <<"-">> \o SubSeq(s, 4, 5)
                                \o <<"-">> \o SubSeq(s, 1, 2)
           ELSE out = s

\* The candidates of natural identity id, as positions of cand, that have
\* the highest attendance_percentage of their group
BestOfGroup(cand, id) ==
    {i \in 1..Len(cand) :
        /\ natural_id(cand[i]) = id
        /\ \A k \in 1..Len(cand) :
              natural_id(cand[k]) = id
                => cand[k].attendance_percentage <= cand[i].attendance_percentage}

\* C19: deduplication is deterministic, also with tied attendance: the row
\* kept for a group is the one that comes first in the batch order among the
\* candidates with the highest attendance, so it depends on the candidate
\* rows and their order only, and two runs with the same candidates in the
\* same order keep the same rows.
C19_DedupDeterministic ==
    \A r \in Runs :
        run[r].pc = "connect" =>
            LET cand == run[r].h_filtered
                final == run[r].new_data_df
            IN /\ \A j \in 1..Len(final) :
                    final[j] = cand[SetMin(BestOfGroup(cand, natural_id(final[j])))]
               /\ \A q \in Runs :
                    (Did(q, "dedup") /\ run[q].h_filtered = cand)
                        => run[q].new_data_df = final

\* Two different candidates of one group tie at the highest attendance and
\* the one that came first in the batch has been kept
C19_Witness ==
    \E r \in Runs :
        /\ run[r].pc = "connect"
        /\ \E i, k \in 1..Len(run[r].h_filtered) :
              /\ i < k
              /\ run[r].h_filtered[i] # run[r].h_filtered[k]
              /\ {i, k} \subseteq BestOfGroup(run[r].h_filtered,
                                               natural_id(run[r].h_filtered[i]))
              /\ run[r].h_filtered[i] \in Range(run[r].new_data_df)
              /\ run[r].h_filtered[k] \notin Range(run[r].new_data_df)

\* C20: the rows offered to the table are, at every moment, the first rows
\* of the final record set in its order, one offer and one outcome per row;
\* a run that ends without an exception and without a failed insert has
\* offered the whole final set, each row once, and nothing else.
C20_FinalSetOfferedOnceInOrder ==
    \A r \in Runs :
        /\ Len(run[r].h_offered) <= Len(run[r].new_data_df)
        /\ run[r].h_offered = SubSeq(run[r].new_data_df, 1, Len(run[r].h_offered))
        /\ Len(run[r].h_outcomes) = Len(run[r].h_offered)
        /\ ( /\ run[r].pc \in {"summary", "done"}
             /\ Did(r, "dedup")
             /\ "error" \notin Range(run[r].h_outcomes) )
            => run[r].h_offered = run[r].new_data_df

\* A run has ended after offering its two final rows, one of which was
\* stored and the other rejected as a duplicate
C20_Witness ==
    \E r \in Runs :
        /\ run[r].pc = "done"
        /\ Len(run[r].new_data_df) >= 2
        /\ run[r].h_offered = run[r].new_data_df
        /\ run[r].h_outcomes[1] = "inserted"
        /\ "duplicate" \in Range(run[r].h_outcomes)

\* The rows of run r that the table accepted, in the order of their inserts
RECURSIVE InsertedUpTo(_, _)
InsertedUpTo(r, n) ==
    IF n = 0 THEN <<>>
    ELSE InsertedUpTo(r, n - 1)
           \o (IF run[r].h_outcomes[n] = "inserted"
               THEN <<run[r].h_offered[n]>> ELSE <<>>)

Inserted(r) == InsertedUpTo(r, Len(run[r].h_outcomes))

\* C21: each successful insert is committed on its own: the table is at
\* every moment the table before the run followed by exactly the rows the
\* run has inserted so far, also after a later row has failed (the first
\* run starts from the empty table, the second from what the first left).
C21_InsertedRowsStay ==
    store = Inserted("r1") \o Inserted("r2")

\* The second row of a run has failed after its first row was inserted, the
\* run has ended, and the first row is in the table
C21_Witness ==
    \E r \in Runs :
        /\ run[r].pc = "done"
        /\ run[r].h_outcomes = <<"inserted", "error">>
        /\ run[r].h_offered[1] \in Range(store)

\* Run r has ended normally and the table accepted every row it offered
AllPersisted(r) ==
    /\ run[r].pc = "done"
    /\ Did(r, "inserted_all")
    /\ \A i \in 1..Len(run[r].h_outcomes) : run[r].h_outcomes[i] = "inserted"

\* C22: run idempotence: after a run in which every insert succeeded, a
\* second run on the same raw batch, reading the snapshot of the table the
\* first run left, finds no new candidate and inserts nothing; a record
\* the first run discarded in duplicate resolution is never inserted.
C22_SecondRunInsertsNothing ==
    ( /\ AllPersisted("r1")
      /\ run["r2"].h_snapshot = "ok"
      /\ Did("r2", "filter") )
    => /\ run["r2"].h_filtered = <<>>
       /\ "inserted" \notin Range(run["r2"].h_outcomes)

\* C23: after any sequence of serialized runs for one period the table
\* never holds two records with the same natural identity (student_id,
\* student_name, gender, school_name).
C23_OneStoredRecordPerNaturalIdentity ==
    \A i, j \in 1..Len(store) :
        natural_id(store[i]) = natural_id(store[j]) => i = j

\* C24: in the statistics of a run that has left insert_data_to_mysql,
\* new_records_inserted is the number of rows the run committed, also when
\* the loop was aborted by a database error.
C24_InsertedCountIsRowsCommitted ==
    \A r \in Runs :
        (run[r].pc \in {"summary", "done"} /\ Did(r, "connect"))
            => run[r].stats.new_records_inserted = Len(Inserted(r))

\* C25: the grade normalizer of the standalone monthly script and the one
\* of utils.py return the same label for every input string.
C25_GradeNormalizersAgree ==
    (fn_output.fn = "grade_normalizers" /\ fn_input.kind = "str")
        => fn_output.out[1] = fn_output.out[2]

\* ------------------------------------------------------------------------
\* The yearly backfill (student_attendance_yearly.py): fetch_data for one
\* (academic_year, month) against the empty table
\* ------------------------------------------------------------------------

\* Lines 229-235 of fetch_data: the normalizers (the grade normalizer is the
\* text of utils.py's), academic_year; round() leaves a whole percentage
\* as it is; the month column is the one the API sends
clean_row_yearly(raw) ==
    [raw EXCEPT !.student_name = clean_student_name(@),
                !.grade_name = IF @ = <<>> THEN @ ELSE convert_grade_name_utils(@),
                !.date = format_date_column(@),
                !.gender = clean_gender(@),
                !.division_name = extract_division(@)]
        @@ [academic_year |-> academic_year]

\* subset of deduplicate_by_studentid in the yearly script
yearly_id(row) == <<row.student_id, row.student_name>>

\* sort_values(by=['student_id', 'student_name', 'attendance_percentage'],
\*             ascending=[True, True, False]): a sorts before b
yearly_sorts_before(a, b) ==
    \/ TupleLess(yearly_id(a), yearly_id(b))
    \/ /\ yearly_id(a) = yearly_id(b)
       /\ a.attendance_percentage > b.attendance_percentage

RECURSIVE YearlyInsertSorted(_, _)
YearlyInsertSorted(s, x) ==
    IF s = <<>> THEN <<x>>
    ELSE IF yearly_sorts_before(x, Head(s)) THEN <<x>> \o s
    ELSE <<Head(s)>> \o YearlyInsertSorted(Tail(s), x)

RECURSIVE YearlySortRows(_)
YearlySortRows(s) ==
    IF s = <<>> THEN <<>>
    ELSE YearlyInsertSorted(YearlySortRows(SubSeq(s, 1, Len(s) - 1)), s[Len(s)])

\* Lines 108-118
deduplicate_by_studentid_yearly(df) ==
    LET duplicated_subset ==
            {i \in 1..Len(df) :
                \E j \in 1..Len(df) : j # i /\ yearly_id(df[j]) = yearly_id(df[i])}
        df_duplicates == YearlySortRows(TakeRows(df, duplicated_subset, 1))
        df_deduped ==
            TakeRows(df_duplicates,
                     {i \in 1..Len(df_duplicates) :
                         \A j \in 1..(i - 1) :
                             yearly_id(df_duplicates[j]) # yearly_id(df_duplicates[i])},
                     1)
        df_non_duplicates == TakeRows(df, (1..Len(df)) \ duplicated_subset, 1)
    IN df_non_duplicates \o df_deduped

\* Lines 229-242: the rows handed to insert_data_to_mysql
yearly_final(data) ==
    LET cleaned == [i \in 1..Len(data) |-> clean_row_yearly(data[i])]
        deduped == deduplicate_by_studentid_yearly(cleaned)
        trimmed == [i \in 1..Len(deduped) |-> trim_row(deduped[i])]
    IN key_batch(trimmed)

\* The rows of df written with INSERT ... ON DUPLICATE KEY UPDATE, one
\* after the other, into table st
RECURSIVE yearly_table(_, _)
yearly_table(st, df) ==
    IF df = <<>> THEN st
    ELSE yearly_table(table_after_upsert(st, Head(df)), Tail(df))

\* Longest batch of the yearly backfill
MaxYearlyBatch == 2

\* Records of student S1 named Ann Lee for the month June, over two
\* schools, two genders, two grades and two attendance figures
YearlyRaws ==
    {[RawBase EXCEPT !.school_name = school, !.gender = gender,
                     !.grade_name = grade, !.attendance_percentage = pct]
       @@ [month |-> <<"J","u","n","e">>] :
        school \in {<<"X">>, <<"Y">>},
        gender \in {<<" ","G","i","r","l"," ">>, <<"m">>},
        grade \in {<<"G","R","A","D","E"," ","I","V">>, <<"G","R","A","D","E"," ","V">>},
        pct \in {80, 95}}

InitYearly ==
    /\ fn_input \in SeqsUpTo(YearlyRaws, MaxYearlyBatch)
    /\ fn_output = NoOutput
    /\ apiData = <<>>
    /\ store = <<>>
    /\ run = [r \in Runs |-> InitRun]

\* fetch_data on a non-empty batch with every execute and the commit
\* succeeding: out is the final rows and the table after them
YearlyFetchData ==
    /\ fn_output = NoOutput
    /\ fn_input # <<>>
    /\ LET final == yearly_final(fn_input)
       IN fn_output' = [fn |-> "fetch_data",
                        out |-> <<final, yearly_table(<<>>, final)>>]
    /\ UNCHANGED <<apiData, store, run, fn_input>>

\* fetch_data on an empty batch: nothing is written
YearlyNoData ==
    /\ fn_output = NoOutput
    /\ fn_input = <<>>
    /\ fn_output' = [fn |-> "fetch_data", out |-> << <<>>, <<>> >>]
    /\ UNCHANGED <<apiData, store, run, fn_input>>

NextYearly == YearlyFetchData \/ YearlyNoData

SpecYearly == InitYearly /\ [][NextYearly]_vars

\* C26: in the yearly backfill, duplicate resolution never discards a record
\* in favour of one of a different school or gender: for every record of the
\* batch the final rows hold a record of its natural identity, and two
\* records with the same student_id and student_name but different
\* school_name are both in the table afterwards.
C26_YearlyKeepsOtherSchoolsAndGenders ==
    fn_output.fn = "fetch_data" =>
        LET final == fn_output.out[1]
            table == fn_output.out[2]
            cleaned == [i \in 1..Len(fn_input) |-> trim_row(clean_row_yearly(fn_input[i]))]
        IN /\ \A i \in 1..Len(cleaned) :
                \E k \in 1..Len(final) : natural_id(final[k]) = natural_id(cleaned[i])
           /\ \A i \in 1..Len(cleaned) :
                \E k \in 1..Len(table) :
                    table[k].school_name = cleaned[i].school_name

\* ------------------------------------------------------------------------
\* The academic year of a calendar month, as each entry point derives it
\* ------------------------------------------------------------------------

\* get_academic_year of swptm_daily.py
get_academic_year(date_obj) ==
    IF date_obj.month < 6
    THEN IntToStr(date_obj.year - 1) \o <<"-">> \o IntToStr(date_obj.year)
    ELSE IntToStr(date_obj.year) \o <<"-">> \o IntToStr(date_obj.year + 1)

\* academic_year of setup_logging in logging_config.py
logging_academic_year(current_date) ==
    IF current_date.month >= 5
    THEN IntToStr(current_date.year) \o <<"-">> \o IntToStr(current_date.year + 1)
    ELSE IntToStr(current_date.year - 1) \o <<"-">> \o IntToStr(current_date.year)

\* First calendar year considered (the first year of the yearly backfill)
FirstYear == 2022

\* Number of calendar years considered
YearSpan == 3

InitAcademicYear ==
    /\ fn_input \in [year : FirstYear..(FirstYear + YearSpan - 1), month : 1..12]
    /\ fn_output = NoOutput
    /\ apiData = <<>>
    /\ store = <<>>
    /\ run = [r \in Runs |-> InitRun]

\* The monthly pipeline, run in the month after fn_input
MonthlyAcademicYear ==
    /\ fn_output = NoOutput
    /\ fn_output' = [fn |-> "monthly", out |-> <<academic_year_of(fn_input)>>]
    /\ UNCHANGED <<apiData, store, run, fn_input>>

\* The SWPTM daily script, run in the month fn_input
SwptmAcademicYear ==
    /\ fn_output = NoOutput
    /\ fn_output' = [fn |-> "swptm", out |-> <<get_academic_year(fn_input)>>]
    /\ UNCHANGED <<apiData, store, run, fn_input>>

\* The log-file naming, run in the month fn_input
LoggingAcademicYear ==
    /\ fn_output = NoOutput
    /\ fn_output' = [fn |-> "logging", out |-> <<logging_academic_year(fn_input)>>]
    /\ UNCHANGED <<apiData, store, run, fn_input>>

NextAcademicYear ==
    \/ MonthlyAcademicYear
    \/ SwptmAcademicYear
    \/ LoggingAcademicYear

SpecAcademicYear == InitAcademicYear /\ [][NextAcademicYear]_vars

\* C27: every entry point derives the academic year of a calendar month
\* the same way: January to April of year Y give (Y-1)-Y and May to
\* December of year Y give Y-(Y+1).
C27_AcademicYearSameEverywhere ==
    fn_output.fn \in {"monthly", "swptm", "logging"} =>
        LET start == IF fn_input.month \in 1..4 THEN fn_input.year - 1
                     ELSE fn_input.year
        IN fn_output.out[1] = IntToStr(start) \o <<"-">> \o IntToStr(start + 1)

\* ------------------------------------------------------------------------
\* The daily run of main.py: the ingestion of api.py, then the reminders
\* ------------------------------------------------------------------------

\* school_config.SCHOOLS_ADMIN, the configured schools with the address of
\* their admin, in the order of the dictionary's items()
SCHOOLS_ADMIN ==
    << << <<"X">>, <<"x","@","s">> >>,
       << <<"Y">>, <<"y","@","s">> >>,
       << <<"Z">>, <<"z","@","s">> >> >>

\* get_schools_with_data(academic_year, month_name): SELECT DISTINCT
\* school_name ... WHERE academic_year = %s AND month = %s
get_schools_with_data(st, year, month) ==
    {st[i].school_name :
        i \in {k \in 1..Len(st) : st[k].academic_year = year /\ st[k].month = month}}

\* The loop of send_reminders_if_no_data over the first n configured
\* schools: the send_email calls it makes, in order
RECURSIVE reminders_sent(_, _)
reminders_sent(schools_with_data, n) ==
    IF n = 0 THEN <<>>
    ELSE LET school_name == SCHOOLS_ADMIN[n][1]
             admin_email == SCHOOLS_ADMIN[n][2]
         IN reminders_sent(schools_with_data, n - 1)
              \o (IF school_name \notin schools_with_data
                  THEN << [to |-> admin_email, school |-> school_name] >>
                  ELSE <<>>)

\* Longest batch the API returns to the daily run
MaxMainBatch == 2

\* A row that a run of the month before stored for school Y
EarlierPeriodRow ==
    key_row([clean_row(RawOtherSchool) EXCEPT !.month = <<"M","a","y">>])

\* The table when the daily run starts: empty, or holding school X's row
\* of the period, or holding only school Y's row of the period before
MainStores ==
    {<<>>, <<key_row(clean_row(RawBase))>>, <<EarlierPeriodRow>>}

InitMain ==
    /\ apiData \in SeqsUpTo(RawPool, MaxMainBatch)
    /\ store \in MainStores
    /\ run = [r \in Runs |-> InitRun]
    /\ fn_input = <<>>
    /\ fn_output = NoOutput

\* send_reminders_if_no_data(), which main calls when
\* fetch_data_from_api_and_process() has returned. get_schools_with_data
\* handles no exception: when its connect() or query fails, the error
\* leaves main and no reminder is sent.
SendReminders ==
    /\ run["r1"].pc = "done"
    /\ fn_output = NoOutput
    /\ \E connected \in BOOLEAN :
          fn_output' =
              IF connected
              THEN [fn |-> "send_reminders_if_no_data",
                    out |-> reminders_sent(
                               get_schools_with_data(store, academic_year, month_name),
                               Len(SCHOOLS_ADMIN))]
              ELSE [fn |-> "get_schools_with_data_raised", out |-> <<>>]
    /\ UNCHANGED <<apiData, store, run, fn_input>>

\* main(): one ingestion run, then the reminders. An exception that leaves
\* the ingestion (pc "raised") ends main before send_reminders_if_no_data.
NextMain == Fetch("r1") \/ RunStep("r1") \/ SendReminders

SpecMain == InitMain /\ [][NextMain]_vars

\* main has ended and the table could be read for the reminders
MainEnded ==
    \/ run["r1"].pc = "raised"
    \/ fn_output.fn = "send_reminders_if_no_data"

\* the number of reminders sent for a school
RemindersFor(school) ==
    Cardinality({k \in 1..Len(fn_output.out) : fn_output.out[k].school = school})

HasPeriodRecord(school) ==
    \E j \in 1..Len(store) :
        /\ store[j].school_name = school
        /\ store[j].academic_year = academic_year
        /\ store[j].month = month_name

\* C28: in one daily run of main the reminders are computed only after the
\* ingestion has finished, and when main has ended each configured school
\* with no stored record of the previous month's period has received
\* exactly one reminder and every other configured school none.
C28_RemindersForExactlyTheMissingSchools ==
    /\ fn_output # NoOutput => run["r1"].pc = "done"
    /\ MainEnded =>
          \A i \in 1..Len(SCHOOLS_ADMIN) :
              RemindersFor(SCHOOLS_ADMIN[i][1]) =
                  IF HasPeriodRecord(SCHOOLS_ADMIN[i][1]) THEN 0 ELSE 1

\* The same property for the daily runs whose ingestion returned
RemindersExactWhenIngestionReturns ==
    fn_output.fn = "send_reminders_if_no_data" =>
        \A i \in 1..Len(SCHOOLS_ADMIN) :
            RemindersFor(SCHOOLS_ADMIN[i][1]) =
                IF HasPeriodRecord(SCHOOLS_ADMIN[i][1]) THEN 0 ELSE 1

\* the run's current row carries a key the table already holds
OffersStoredKey(r) ==
    /\ run[r].pc = "insert"
    /\ run[r].row_index <= Len(run[r].new_data_df)
    /\ CurrentRow(run[r]).student_attendance_data_unique_key \in stored_keys(store)

\* the outcome of the row the step has just offered
LastOutcome(loc) == loc.h_outcomes[Len(loc.h_outcomes)]

\* C29: when the snapshot read fails with a query error on an open
\* connection the run goes on with an empty snapshot, every batch record is
\* a candidate, and a candidate whose key is already stored is not written:
\* the table stays as it was, and unless the statement fails with another
\* database error the row is counted as a skipped duplicate and the loop
\* goes on, so the table never holds two rows with one key.
C29_FailedSnapshotNeverOverwrites ==
    [][\A r \in Runs :
          run[r].h_snapshot = "query_error" =>
            /\ run[r].unique_keys_from_mysql = {}
            /\ Did(r, "filter") => run[r].h_filtered = run[r].df
            /\ (OffersStoredKey(r) /\ run'[r].h_outcomes # run[r].h_outcomes) =>
                  /\ store' = store
                  /\ LastOutcome(run'[r]) \in {"duplicate", "error"}
                  /\ LastOutcome(run'[r]) = "duplicate" =>
                        /\ run'[r].duplicate_count = run[r].duplicate_count + 1
                        /\ run'[r].pc = "insert"
            /\ StoreKeysUnique]_vars

\* the second run read no snapshot, offered a row whose key the first run
\* had stored, and skipped it as a duplicate
C29_Witness ==
    /\ run["r2"].h_snapshot = "query_error"
    /\ Inserted("r1") # <<>>
    /\ \E k \in 1..Len(run["r2"].h_outcomes) :
          /\ run["r2"].h_outcomes[k] = "duplicate"
          /\ run["r2"].h_offered[k].student_attendance_data_unique_key
                \in stored_keys(Inserted("r1"))
          /\ run["r2"].h_offered[k] \notin Range(store)
====
